---------------------------- MODULE Spec2Model ----------------------------
(***************************************************************************)
(* Google_Trends_2.0.0.0.py as a state machine.                            *)
(*                                                                         *)
(* One run of the script: get_data splits the timeframe at its midpoint,   *)
(* fetches the two halves, rescales the first half keyword by keyword and  *)
(* concatenates; the two plot functions and the CSV export follow, then    *)
(* the final print.                                                        *)
(*                                                                         *)
(* Representation.                                                         *)
(*  - A date string 'YYYY-MM-DD' is a 10-tuple of one-character strings.   *)
(*  - A datetime is [ord, sec]: proleptic Gregorian ordinal and second of  *)
(*    the day; a timedelta is [days, seconds].  The microsecond field is   *)
(*    left out: it is 0 for every value the script builds (differences of  *)
(*    midnights, halved: a whole number of half days).                     *)
(*  - An interest value is an exact rational <<num, den>> in lowest terms  *)
(*    (den > 0).  The script computes in IEEE doubles; the model computes  *)
(*    the same expressions exactly.                                        *)
(*  - A DataFrame is [index, cols]: the row labels (day ordinals) and,     *)
(*    per column name, the column's values in row order.                   *)
(***************************************************************************)
EXTENDS Integers, Sequences, FiniteSets, TLC

VARIABLES
    pc,               \* position of the run in the script
    keywords,         \* module global `keywords` (l.198)
    timeframe_range,  \* module global `timeframe_range` (l.203)
    split,            \* (start_date, midpoint_date, end_date) of get_data, <<>> before l.65
    requests,         \* the time_range of every build_payload issued so far (l.68)
    trends_data,      \* get_data's local list of the two fetched frames (l.66-75)
    fetched,          \* the frames exactly as the provider returned them (history)
    kw_i,             \* position of `for keyword in keywords` (l.71)
    scale_log,        \* <<keyword, scale_factor>> of every loop iteration so far (l.74)
    combined_data,    \* get_data's result / module global trends_data (l.77, l.208)
    renders,          \* one record per plot call: flag, what was written, what was shown
    csv_file,         \* what export_data_as_csv wrote, NoFrame before
    printed,          \* "Run completed." was printed (l.213)
    fetch_failed,     \* a fetch raised (history)
    log               \* the steps taken, in order (history)

vars == <<pc, keywords, timeframe_range, split, requests, trends_data, fetched,
          kw_i, scale_log, combined_data, renders, csv_file, printed,
          fetch_failed, log>>

None == "None"

\* a frame variable that is not bound yet
NoFrame == [unbound |-> TRUE]

-----------------------------------------------------------------------------
(* Bounds of the model.                                                    *)

\* fetched interest values are drawn from 0..MaxInterest (the provider's are 0..100)
MaxInterest == 2
\* the calendar of the range-splitter check covers NumYears years from 2019
NumYears == 2
\* ... and timeframes of 1..MaxSpan days
MaxSpan == 40

-----------------------------------------------------------------------------
(* Calendar arithmetic of datetime (the library behind l.45-48).           *)

Digits == <<"0", "1", "2", "3", "4", "5", "6", "7", "8", "9">>

Chr(n) == Digits[n + 1]

Val(c) == CHOOSE n \in 0..9 : Digits[n + 1] = c

IsLeap(y) == (y % 4 = 0) /\ ((y % 100 # 0) \/ (y % 400 = 0))

DaysInMonth(y, m) ==
    IF m = 2 THEN (IF IsLeap(y) THEN 29 ELSE 28)
    ELSE IF m \in {4, 6, 9, 11} THEN 30 ELSE 31

\* datetime._days_before_year
DaysBeforeYear(y) ==
    LET p == y - 1 IN p * 365 + (p \div 4) - (p \div 100) + (p \div 400)

RECURSIVE DaysBeforeMonth(_, _)
DaysBeforeMonth(y, m) ==
    IF m = 1 THEN 0 ELSE DaysBeforeMonth(y, m - 1) + DaysInMonth(y, m - 1)

\* datetime._ymd2ord
Ymd2Ord(y, m, d) == DaysBeforeYear(y) + DaysBeforeMonth(y, m) + d

\* datetime._ord2ymd, step by step: 400-, 100-, 4- and 1-year cycles, then the month
Ord2Ymd(ord) ==
    LET n0   == ord - 1
        n400 == n0 \div 146097
        r400 == n0 % 146097
        n100 == r400 \div 36524
        r100 == r400 % 36524
        n4   == r100 \div 1461
        r4   == r100 % 1461
        n1   == r4 \div 365
        r1   == r4 % 365
        year == n400 * 400 + 1 + n100 * 100 + n4 * 4 + n1
    IN  IF n1 = 4 \/ n100 = 4
        THEN [year |-> year - 1, month |-> 12, day |-> 31]
        ELSE LET month == CHOOSE m \in 1..12 :
                              /\ DaysBeforeMonth(year, m) <= r1
                              /\ r1 < DaysBeforeMonth(year, m) + DaysInMonth(year, m)
             IN  [year |-> year, month |-> month,
                  day |-> r1 - DaysBeforeMonth(year, month) + 1]

\* datetime.strptime(s, '%Y-%m-%d'): the digits read as year, month, day; midnight
strptime(s) ==
    LET y == Val(s[1]) * 1000 + Val(s[2]) * 100 + Val(s[3]) * 10 + Val(s[4])
        m == Val(s[6]) * 10 + Val(s[7])
        d == Val(s[9]) * 10 + Val(s[10])
    IN  [ord |-> Ymd2Ord(y, m, d), sec |-> 0]

\* dt.strftime('%Y-%m-%d'): the date part, zero padded; the time of day is dropped
strftime(dt) ==
    LET c == Ord2Ymd(dt.ord)
    IN  << Chr(c.year \div 1000), Chr((c.year \div 100) % 10),
           Chr((c.year \div 10) % 10), Chr(c.year % 10), "-",
           Chr(c.month \div 10), Chr(c.month % 10), "-",
           Chr(c.day \div 10), Chr(c.day % 10) >>

\* datetime.__sub__
DtSub(a, b) ==
    LET t == (a.ord - b.ord) * 86400 + (a.sec - b.sec)
    IN  [days |-> t \div 86400, seconds |-> t % 86400]

\* datetime._divide_and_round: nearest, ties to even
DivideAndRound(a, b) ==
    LET q == a \div b
        r == 2 * (a % b)
    IN  IF r > b \/ (r = b /\ q % 2 = 1) THEN q + 1 ELSE q

\* timedelta.__truediv__ by an int
TdDiv(td, k) ==
    LET t == DivideAndRound(td.days * 86400 + td.seconds, k)
    IN  [days |-> t \div 86400, seconds |-> t % 86400]

\* datetime.__add__ of a timedelta
DtAdd(dt, td) ==
    LET t == dt.sec + td.seconds
    IN  [ord |-> dt.ord + td.days + (t \div 86400), sec |-> t % 86400]

\* l.47 with the midpoint rounded up to the next midnight instead of truncated
MidpointRoundedUp(start_date_obj, end_date_obj) ==
    LET m == DtAdd(start_date_obj, TdDiv(DtSub(end_date_obj, start_date_obj), 2))
    IN  IF m.sec = 0 THEN m ELSE [ord |-> m.ord + 1, sec |-> 0]

\* l.47: midpoint_date_obj = start_date_obj + (end_date_obj - start_date_obj) / 2
Midpoint(start_date_obj, end_date_obj) ==
    DtAdd(start_date_obj, TdDiv(DtSub(end_date_obj, start_date_obj), 2))

\* l.34-48
divide_timeframe_range(start_date, end_date) ==
    LET start_date_obj == strptime(start_date)
        end_date_obj   == strptime(end_date)
        midpoint_date_obj == Midpoint(start_date_obj, end_date_obj)
    IN  << strftime(start_date_obj), strftime(midpoint_date_obj),
           strftime(end_date_obj) >>

-----------------------------------------------------------------------------
(* Exact arithmetic on interest values.                                    *)

RECURSIVE GCD(_, _)
GCD(a, b) == IF b = 0 THEN a ELSE GCD(b, a % b)

\* n/d in lowest terms, d > 0, n >= 0
Rat(n, d) == LET g == GCD(n, d) IN << n \div g, d \div g >>

Zero == Rat(0, 1)

One == Rat(1, 1)

RMul(x, y) == Rat(x[1] * y[1], x[2] * y[2])

\* x / y for y # 0
RDiv(x, y) == Rat(x[1] * y[2], x[2] * y[1])

-----------------------------------------------------------------------------
(* DataFrames.                                                             *)

ToSet(seq) == { seq[i] : i \in 1..Len(seq) }

Last(seq) == seq[Len(seq)]

\* the provider's values: integers 0..MaxInterest
Interest == { Rat(v, 1) : v \in 0..MaxInterest }

\* the rows of a reply: one per day of the requested window, both ends included
DailyIndex(time_range) ==
    LET a == strptime(time_range[1]).ord
        b == strptime(time_range[2]).ord
    IN  [ i \in 1..(b - a + 1) |-> a + i - 1 ]

\* l.68-69: what interest_over_time() may return for a payload: the daily rows of
\* the window and one integer column per distinct keyword
Replies(kws, time_range) ==
    LET idx == DailyIndex(time_range)
    IN  { [index |-> idx, cols |-> c] :
            c \in [ ToSet(kws) -> [ 1..Len(idx) -> Interest ] ] }

\* l.67: the two windows, in fetch order
TimeRangesSwapped(s) == << <<s[2], s[3]>>, <<s[1], s[2]>> >>

TimeRanges(s) == << <<s[1], s[2]>>, <<s[2], s[3]>> >>

\* l.72 reading the last sample of the second half instead of the first
mean_second_half_start_last(td, keyword) == Last(td[2].cols[keyword])

\* l.72: trends_data[1][keyword].iloc[0]
mean_second_half_start(td, keyword) == td[2].cols[keyword][1]

\* l.73 reading the first sample of the first half instead of the last
mean_first_half_end_first(td, keyword) == td[1].cols[keyword][1]

\* l.73: trends_data[0][keyword].iloc[-1]
mean_first_half_end(td, keyword) == Last(td[1].cols[keyword])

\* l.74 with the fallback taken from the second half instead of the constant 1
scale_factor_fallback_new(second_half_start, first_half_end) ==
    IF first_half_end # Zero
    THEN RDiv(second_half_start, first_half_end)
    ELSE second_half_start

\* l.74 with the ratio inverted
scale_factor_inverted(second_half_start, first_half_end) ==
    IF first_half_end # Zero
    THEN (IF second_half_start # Zero
          THEN RDiv(first_half_end, second_half_start) ELSE Zero)
    ELSE One

\* l.74: mean_second_half_start / mean_first_half_end if mean_first_half_end != 0 else 1
scale_factor(second_half_start, first_half_end) ==
    IF first_half_end # Zero
    THEN RDiv(second_half_start, first_half_end)
    ELSE One

ScaledColumn(col, s) == [ i \in 1..Len(col) |-> RMul(col[i], s) ]

\* l.75 applied to the keyword's column of both frames
rescale_both(td, keyword, s) ==
    [ h \in 1..Len(td) |->
        [td[h] EXCEPT !.cols[keyword] = ScaledColumn(@, s)] ]

\* l.75: trends_data[0][keyword] *= scale_factor
rescale(td, keyword, s) ==
    [td EXCEPT ![1].cols[keyword] = ScaledColumn(@, s)]

RECURSIVE ConcatIndex(_)
ConcatIndex(frames) ==
    IF frames = <<>> THEN <<>>
    ELSE frames[1].index \o ConcatIndex(Tail(frames))

RECURSIVE ConcatColumn(_, _)
ConcatColumn(frames, k) ==
    IF frames = <<>> THEN <<>>
    ELSE frames[1].cols[k] \o ConcatColumn(Tail(frames), k)

\* l.77: pd.concat(trends_data): the rows of the frames one after the other
concat(frames) ==
    [ index |-> ConcatIndex(frames),
      cols  |-> [ k \in DOMAIN frames[1].cols |-> ConcatColumn(frames, k) ] ]

-----------------------------------------------------------------------------
(* Inputs.                                                                 *)

DateString(y, m, d) ==
    << Chr(y \div 1000), Chr((y \div 100) % 10), Chr((y \div 10) % 10), Chr(y % 10),
       "-", Chr(m \div 10), Chr(m % 10), "-", Chr(d \div 10), Chr(d % 10) >>

\* timeframes of the whole-run specification: across a leap day, across a year end,
\* inside a month; 2, 1 and 1 days long
Timeframes ==
    { << DateString(2020, 2, 28), DateString(2020, 3, 1) >>,
      << DateString(2019, 12, 31), DateString(2020, 1, 1) >>,
      << DateString(2021, 6, 14), DateString(2021, 6, 15) >> }

\* keyword lists of the whole-run specification
KeywordLists == { <<"PyTorch", "TensorFlow">>, <<"TensorFlow", "PyTorch">> }

\* keyword lists of the stitching specification: uniqueness is not enforced
StitchKeywordLists ==
    KeywordLists \cup { <<"PyTorch", "TensorFlow", "PyTorch">>, <<"PyTorch", "PyTorch">> }

\* the timeframe of the stitching specification: two samples in each half
StitchTimeframe == << DateString(2020, 2, 28), DateString(2020, 3, 1) >>

figure_path == "plot.png"

-----------------------------------------------------------------------------
(* The run.                                                                *)

InitRun(tf, kws) ==
    /\ pc = "start"
    /\ keywords = kws
    /\ timeframe_range = tf
    /\ split = <<>>
    /\ requests = <<>>
    /\ trends_data = <<>>
    /\ fetched = <<>>
    /\ kw_i = 1
    /\ scale_log = <<>>
    /\ combined_data = NoFrame
    /\ renders = <<>>
    /\ csv_file = NoFrame
    /\ printed = FALSE
    /\ fetch_failed = FALSE
    /\ log = <<>>

Init == \E tf \in Timeframes, kws \in KeywordLists : InitRun(tf, kws)

\* l.208 entering get_data, l.64-66
GetDataSplit ==
    /\ pc = "start"
    /\ split' = divide_timeframe_range(timeframe_range[1], timeframe_range[2])
    /\ pc' = "fetch"
    /\ log' = Append(log, "split")
    /\ UNCHANGED <<keywords, timeframe_range, requests, trends_data, fetched, kw_i,
                   scale_log, combined_data, renders, csv_file, printed, fetch_failed>>

\* l.67-69, one pass of the loop in which the provider answers
FetchOk ==
    /\ pc = "fetch"
    /\ LET time_range == TimeRanges(split)[Len(trends_data) + 1]
       IN  /\ requests' = Append(requests, time_range)
           /\ \E reply \in Replies(keywords, time_range) :
                /\ trends_data' = Append(trends_data, reply)
                /\ fetched' = Append(fetched, reply)
    /\ pc' = IF Len(trends_data) + 1 = 2 THEN "rescale" ELSE "fetch"
    /\ kw_i' = 1
    /\ log' = Append(log, "fetch")
    /\ UNCHANGED <<keywords, timeframe_range, split, scale_log, combined_data,
                   renders, csv_file, printed, fetch_failed>>

\* l.67-69 with the exception caught and the loop pass repeated
FetchFailRetried ==
    /\ pc = "fetch"
    /\ requests' = Append(requests, TimeRanges(split)[Len(trends_data) + 1])
    /\ fetch_failed' = TRUE
    /\ log' = Append(log, "fetch_failed")
    /\ UNCHANGED <<pc, keywords, timeframe_range, split, trends_data, fetched, kw_i,
                   scale_log, combined_data, renders, csv_file, printed>>

\* l.68-69 raising (rate limit, network error): nothing catches it, neither in
\* get_data nor at l.208, and the interpreter exits
FetchFail ==
    /\ pc = "fetch"
    /\ requests' = Append(requests, TimeRanges(split)[Len(trends_data) + 1])
    /\ fetch_failed' = TRUE
    /\ pc' = "aborted"
    /\ log' = Append(log, "fetch_failed")
    /\ UNCHANGED <<keywords, timeframe_range, split, trends_data, fetched, kw_i,
                   scale_log, combined_data, renders, csv_file, printed>>

\* l.71-75, one pass of `for keyword in keywords`
RescaleKeyword ==
    /\ pc = "rescale"
    /\ kw_i <= Len(keywords)
    /\ LET keyword == keywords[kw_i]
           second_half_start == mean_second_half_start(trends_data, keyword)
           first_half_end    == mean_first_half_end(trends_data, keyword)
           s == scale_factor(second_half_start, first_half_end)
       IN  /\ trends_data' = rescale(trends_data, keyword, s)
           /\ scale_log' = Append(scale_log,
                  [keyword |-> keyword,
                   mean_second_half_start |-> second_half_start,
                   mean_first_half_end |-> first_half_end,
                   scale_factor |-> s])
    /\ kw_i' = kw_i + 1
    /\ log' = Append(log, "rescale")
    /\ UNCHANGED <<pc, keywords, timeframe_range, split, requests, fetched,
                   combined_data, renders, csv_file, printed, fetch_failed>>

\* l.77-78 and the assignment of l.208
ConcatReturn ==
    /\ pc = "rescale"
    /\ kw_i > Len(keywords)
    /\ combined_data' = concat(trends_data)
    /\ pc' = "plot_keyword_trends"
    /\ log' = Append(log, "concat")
    /\ UNCHANGED <<keywords, timeframe_range, split, requests, trends_data, fetched,
                   kw_i, scale_log, renders, csv_file, printed, fetch_failed>>

\* l.80-129: the chart is drawn, then saved or shown (l.126-129)
plot_keyword_trends(save_figure) ==
    /\ pc = "plot_keyword_trends"
    /\ renders' = Append(renders,
           [fn |-> "plot_keyword_trends", save_figure |-> save_figure,
            saved |-> IF save_figure THEN figure_path ELSE None,
            shown |-> ~save_figure])
    /\ pc' = "plot_interest_ratio"
    /\ log' = Append(log, "plot_keyword_trends")
    /\ UNCHANGED <<keywords, timeframe_range, split, requests, trends_data, fetched,
                   kw_i, scale_log, combined_data, csv_file, printed, fetch_failed>>

\* l.131-182: the chart is drawn, saved on the flag (l.180-181) and shown (l.182)
plot_interest_ratio(save_figure) ==
    /\ pc = "plot_interest_ratio"
    /\ renders' = Append(renders,
           [fn |-> "plot_interest_ratio", save_figure |-> save_figure,
            saved |-> IF save_figure THEN figure_path ELSE None,
            shown |-> TRUE])
    /\ pc' = "export"
    /\ log' = Append(log, "plot_interest_ratio")
    /\ UNCHANGED <<keywords, timeframe_range, split, requests, trends_data, fetched,
                   kw_i, scale_log, combined_data, csv_file, printed, fetch_failed>>

\* l.209 with either value of the flag
PlotKeywordTrends == \E save_figure \in BOOLEAN : plot_keyword_trends(save_figure)

\* l.210 with either value of the flag
PlotInterestRatio == \E save_figure \in BOOLEAN : plot_interest_ratio(save_figure)

\* l.184-193, called at l.211
ExportDataAsCsv ==
    /\ pc = "export"
    /\ csv_file' = combined_data
    /\ pc' = "print"
    /\ log' = Append(log, "export")
    /\ UNCHANGED <<keywords, timeframe_range, split, requests, trends_data, fetched,
                   kw_i, scale_log, combined_data, renders, printed, fetch_failed>>

\* l.213
PrintRunCompleted ==
    /\ pc = "print"
    /\ printed' = TRUE
    /\ pc' = "done"
    /\ log' = Append(log, "print")
    /\ UNCHANGED <<keywords, timeframe_range, split, requests, trends_data, fetched,
                   kw_i, scale_log, combined_data, renders, csv_file, fetch_failed>>

Next ==
    \/ GetDataSplit
    \/ FetchOk
    \/ FetchFail
    \/ RescaleKeyword
    \/ ConcatReturn
    \/ PlotKeywordTrends
    \/ PlotInterestRatio
    \/ ExportDataAsCsv
    \/ PrintRunCompleted

Spec == Init /\ [][Next]_vars

-----------------------------------------------------------------------------
(* The stitching step alone: get_data from l.71 on, started in every state *)
(* the two fetches of StitchTimeframe can leave behind.                    *)

InitStitch ==
    \E kws \in StitchKeywordLists :
      LET s  == divide_timeframe_range(StitchTimeframe[1], StitchTimeframe[2])
          tr == TimeRanges(s)
      IN  \E r1 \in Replies(kws, tr[1]), r2 \in Replies(kws, tr[2]) :
            /\ pc = "rescale"
            /\ keywords = kws
            /\ timeframe_range = StitchTimeframe
            /\ split = s
            /\ requests = tr
            /\ trends_data = <<r1, r2>>
            /\ fetched = <<r1, r2>>
            /\ kw_i = 1
            /\ scale_log = <<>>
            /\ combined_data = NoFrame
            /\ renders = <<>>
            /\ csv_file = NoFrame
            /\ printed = FALSE
            /\ fetch_failed = FALSE
            /\ log = <<"split", "fetch", "fetch">>

NextStitch == RescaleKeyword \/ ConcatReturn

SpecStitch == InitStitch /\ [][NextStitch]_vars

-----------------------------------------------------------------------------
(* The range splitter alone, over a calendar of whole years.               *)

Years == 2019..(2018 + NumYears)

AllDates ==
    { c \in Years \X (1..12) \X (1..31) : c[3] <= DaysInMonth(c[1], c[2]) }

RECURSIVE DaysOfYearsBefore(_)
DaysOfYearsBefore(y) ==
    IF y = 2019 THEN 0
    ELSE DaysOfYearsBefore(y - 1) + (IF IsLeap(y - 1) THEN 366 ELSE 365)

RECURSIVE DaysOfMonthsBefore(_, _)
DaysOfMonthsBefore(y, m) ==
    IF m = 1 THEN 0 ELSE DaysOfMonthsBefore(y, m - 1) + DaysInMonth(y, m - 1)

\* the day count of a calendar date from 2019-01-01, by summing whole years and months
DayIndex(c) == DaysOfYearsBefore(c[1]) + DaysOfMonthsBefore(c[1], c[2]) + c[3] - 1

CalendarPairs ==
    { p \in AllDates \X AllDates :
        /\ DayIndex(p[1]) < DayIndex(p[2])
        /\ DayIndex(p[2]) - DayIndex(p[1]) <= MaxSpan }

InitSplit ==
    \E p \in CalendarPairs :
        InitRun(<< DateString(p[1][1], p[1][2], p[1][3]),
                   DateString(p[2][1], p[2][2], p[2][3]) >>,
                <<"PyTorch", "TensorFlow">>)

NextSplit == GetDataSplit

SpecSplit == InitSplit /\ [][NextSplit]_vars

-----------------------------------------------------------------------------
(* Properties.                                                             *)

Stitched == combined_data # NoFrame

FirstLen == Len(fetched[1].index)

\* the boundary values as fetched
BoundaryOld(k) == fetched[1].cols[k][FirstLen]

BoundaryNew(k) == fetched[2].cols[k][1]

\* equality of two rationals by cross-multiplication
REq(x, y) == x[1] * y[2] = y[1] * x[2]

\* out = v * new / old, for old # 0, by cross-multiplication
IsScaled(out, v, new, old) == out[1] * v[2] * new[2] * old[1] = v[1] * new[1] * old[2] * out[2]

\* C1: for every keyword whose first-half boundary value is non-zero, every
\* first-half sample of the stitched output is its fetched value times
\* (first sample of the second half) / (last sample of the first half); a boundary
\* ratio of 2 doubles every pre-boundary sample, and equal boundary values leave
\* the plain concatenation of the two fetched halves.
C1_FirstHalfScaledByBoundaryRatio ==
    Stitched =>
      \A k \in DOMAIN combined_data.cols :
        BoundaryOld(k) # Zero =>
          /\ \A i \in 1..FirstLen :
                IsScaled(combined_data.cols[k][i], fetched[1].cols[k][i],
                         BoundaryNew(k), BoundaryOld(k))
          /\ (BoundaryNew(k)[1] = 2 * BoundaryOld(k)[1] =>
                \A i \in 1..FirstLen :
                    combined_data.cols[k][i] = Rat(2 * fetched[1].cols[k][i][1], 1))
          /\ (BoundaryNew(k) = BoundaryOld(k) =>
                combined_data.cols[k] = fetched[1].cols[k] \o fetched[2].cols[k])

\* a stitched run in which a keyword's boundary ratio is 2 and a pre-boundary
\* sample of 2 has become 4
C1_Witness ==
    /\ Stitched
    /\ \E k \in DOMAIN combined_data.cols :
         /\ BoundaryOld(k) = Rat(1, 1)
         /\ BoundaryNew(k) = Rat(2, 1)
         /\ fetched[1].cols[k][1] = Rat(2, 1)
         /\ combined_data.cols[k][1] = Rat(4, 1)

\* C2: after stitching, for every keyword whose first-half boundary value is
\* non-zero, the rescaled first half's last sample equals the second half's first
\* sample.
C2_BoundaryValuesMeet ==
    Stitched =>
      \A k \in DOMAIN combined_data.cols :
        BoundaryOld(k) # Zero =>
          /\ REq(Last(trends_data[1].cols[k]), BoundaryNew(k))
          /\ REq(combined_data.cols[k][FirstLen], combined_data.cols[k][FirstLen + 1])

\* a stitched run in which a keyword's two boundary values were fetched different
\* and non-zero
C2_Witness ==
    /\ Stitched
    /\ \E k \in DOMAIN combined_data.cols :
         /\ BoundaryOld(k) # Zero
         /\ BoundaryNew(k) # Zero
         /\ BoundaryNew(k) # BoundaryOld(k)
         /\ fetched[1].cols[k][1] # BoundaryOld(k)

\* C3: whenever the last sample of a keyword's first half is zero the scale factor
\* used is exactly 1, a proper number, whatever the second half's boundary value,
\* and the keyword's first-half samples reach the output unchanged.
C3_ZeroBoundaryScaleIsOne ==
    /\ \A j \in 1..Len(scale_log) :
         /\ scale_log[j].scale_factor[2] > 0
         /\ (scale_log[j].mean_first_half_end = Zero => scale_log[j].scale_factor = One)
    /\ Stitched =>
         \A k \in DOMAIN combined_data.cols :
           BoundaryOld(k) = Zero =>
             \A i \in 1..FirstLen : combined_data.cols[k][i] = fetched[1].cols[k][i]

\* a stitched run in which a keyword's first half ends in zero after a non-zero
\* sample, and its second half starts non-zero
C3_Witness ==
    /\ Stitched
    /\ \E k \in DOMAIN combined_data.cols :
         /\ BoundaryOld(k) = Zero
         /\ BoundaryNew(k) # Zero
         /\ fetched[1].cols[k][1] # Zero
         /\ \E j \in 1..Len(scale_log) :
              scale_log[j].keyword = k /\ scale_log[j].mean_first_half_end = Zero

\* the two fetched halves have strictly increasing daily dates and share the
\* midpoint date
HalvesShareMidpoint ==
    /\ Len(fetched) = 2
    /\ \A h \in 1..2 : \A i \in 1..(Len(fetched[h].index) - 1) :
          fetched[h].index[i + 1] = fetched[h].index[i] + 1
    /\ Last(fetched[1].index) = fetched[2].index[1]

\* C4: given halves with strictly increasing daily dates that both include the
\* midpoint date, the returned series has strictly increasing dates, the boundary
\* date once, no gaps.
C4_DatesStrictlyIncreasing ==
    (Stitched /\ HalvesShareMidpoint) =>
      \A i \in 1..(Len(combined_data.index) - 1) :
          combined_data.index[i + 1] = combined_data.index[i] + 1

\* the digits of a date string read as <<year, month, day>>
ReadDate(s) ==
    << Val(s[1]) * 1000 + Val(s[2]) * 100 + Val(s[3]) * 10 + Val(s[4]),
       Val(s[6]) * 10 + Val(s[7]),
       Val(s[9]) * 10 + Val(s[10]) >>

\* C5: divide_timeframe_range returns (start, midpoint, end) with midpoint =
\* start + floor(D/2) days, D the days from start to end; so start <= midpoint <=
\* end and the second part is longer by at most one day; 2020-01-01..2020-01-10
\* gives 2020-01-05.
C5_MidpointIsFlooredHalf ==
    split # <<>> =>
      LET a == DayIndex(ReadDate(timeframe_range[1]))
          b == DayIndex(ReadDate(timeframe_range[2]))
          m == DayIndex(ReadDate(split[2]))
      IN  /\ split[1] = timeframe_range[1]
          /\ split[3] = timeframe_range[2]
          /\ ReadDate(split[2]) \in AllDates
          /\ m = a + ((b - a) \div 2)
          /\ a <= m /\ m <= b
          /\ (b - m) - (m - a) \in {0, 1}
          /\ (timeframe_range = << DateString(2020, 1, 1), DateString(2020, 1, 10) >>
                => split[2] = DateString(2020, 1, 5))

\* an odd-length timeframe across the leap day, split
C5_Witness ==
    /\ split # <<>>
    /\ timeframe_range = << DateString(2020, 2, 20), DateString(2020, 3, 10) >>
    /\ split[2] = DateString(2020, 2, 29)

\* C6: a failed fetch aborts the run: no retry, no later fetch, no stitching, no
\* rendering, no CSV file, no "Run completed.".
C6_FetchFailureAborts ==
    fetch_failed =>
      /\ pc = "aborted"
      /\ ~ ENABLED Next
      /\ Len(requests) = Len(fetched) + 1
      /\ trends_data = fetched
      /\ scale_log = <<>>
      /\ combined_data = NoFrame
      /\ renders = <<>>
      /\ csv_file = NoFrame
      /\ ~ printed

\* the second fetch failed after the first succeeded
C6_Witness == fetch_failed /\ Len(fetched) = 1 /\ Len(requests) = 2

IsPrefix(a, b) == Len(a) <= Len(b) /\ \A i \in 1..Len(a) : a[i] = b[i]

ExpectedSteps ==
    <<"split", "fetch", "fetch">>
    \o [ i \in 1..Len(keywords) |-> "rescale" ]
    \o <<"concat", "plot_keyword_trends", "plot_interest_ratio", "export", "print">>

StepsCompleted == IF fetch_failed THEN SubSeq(log, 1, Len(log) - 1) ELSE log

\* C7: the steps of a run happen in the order split, fetch [start, midpoint], fetch
\* [midpoint, end], stitch, keyword-trend render, ratio render, export: no
\* stitching before both fetches, no export before stitching and rendering.
C7_StepsInOrder ==
    /\ IsPrefix(StepsCompleted, ExpectedSteps)
    /\ (split = <<>> => requests = <<>>)
    /\ (split # <<>> =>
          IsPrefix(requests, << <<split[1], split[2]>>, <<split[2], split[3]>> >>))
    /\ ((scale_log # <<>> \/ Stitched) => Len(fetched) = 2)
    /\ (Len(renders) > 0 => Stitched)
    /\ (csv_file # NoFrame =>
          /\ Stitched
          /\ csv_file = combined_data
          /\ Len(renders) = 2
          /\ renders[1].fn = "plot_keyword_trends"
          /\ renders[2].fn = "plot_interest_ratio")

\* a completed run
C7_Witness == pc = "done" /\ printed /\ log = ExpectedSteps /\ csv_file # NoFrame

\* C8: in both plot functions a true save_figure writes the chart to figure_path and
\* does not display it; a false one displays it and writes no file.
C8_SaveInsteadOfShow ==
    \A j \in 1..Len(renders) :
        /\ renders[j].save_figure => (renders[j].saved = figure_path /\ ~ renders[j].shown)
        /\ ~ renders[j].save_figure => (renders[j].saved = None /\ renders[j].shown)

\* out = v * (new / old if old # 0 else 1)
OwnScaled(out, v, new, old) ==
    IF old = Zero THEN out = v ELSE IsScaled(out, v, new, old)

\* C9: stitching changes first-half values only: every second-half sample is in the
\* output as fetched, and a keyword's first-half samples are scaled by a factor
\* fixed by that keyword's own two fetched boundary values, whatever the other
\* keywords' values and the order of the keyword list.
C9_OnlyFirstHalfOwnScale ==
    /\ (Len(trends_data) = 2 => trends_data[2] = fetched[2])
    /\ Stitched =>
         \A k \in DOMAIN combined_data.cols :
           /\ \A i \in 1..Len(fetched[2].index) :
                 combined_data.cols[k][FirstLen + i] = fetched[2].cols[k][i]
           /\ \A i \in 1..FirstLen :
                 OwnScaled(combined_data.cols[k][i], fetched[1].cols[k][i],
                           BoundaryNew(k), BoundaryOld(k))

\* a stitched run with TensorFlow listed first, PyTorch scaled by 2 and TensorFlow
\* by 1/2
C9_Witness ==
    /\ Stitched
    /\ keywords = <<"TensorFlow", "PyTorch">>
    /\ BoundaryOld("PyTorch") = Rat(1, 1) /\ BoundaryNew("PyTorch") = Rat(2, 1)
    /\ BoundaryOld("TensorFlow") = Rat(2, 1) /\ BoundaryNew("TensorFlow") = Rat(1, 1)
    /\ combined_data.cols["TensorFlow"][1] = Rat(1, 2)
    /\ fetched[2].cols["PyTorch"][2] = Rat(2, 1)

\* the loop is about to process a keyword it has processed before
RepeatedKeyword ==
    /\ pc = "rescale"
    /\ kw_i <= Len(keywords)
    /\ \E j \in 1..(kw_i - 1) : keywords[j] = keywords[kw_i]

\* C10: the rescale step applied again to an already rescaled keyword computes a
\* scale factor of exactly 1 and changes no value, whatever the boundary values.
C10_RescaleIdempotent ==
    [][ RepeatedKeyword =>
          /\ trends_data' = trends_data
          /\ Last(scale_log').scale_factor = One ]_vars

\* a keyword was rescaled by a factor other than 0 and 1, then processed again
C10_Witness ==
    \E i, j \in 1..Len(scale_log) :
        /\ i < j
        /\ scale_log[i].keyword = scale_log[j].keyword
        /\ scale_log[i].scale_factor \notin {Zero, One}
        /\ scale_log[j].mean_first_half_end # scale_log[i].mean_first_half_end

=============================================================================
